---- MODULE Spec2Model ----
(***************************************************************************)
(* The soil-mask transformer of transformer.py: the green:red ratio        *)
(* classification (gen_plant_mask), the mask application (gen_rgb_mask),   *)
(* soilmask_by_ratio and the file loop of SoilmaskByRatio.perform_process. *)
(*                                                                         *)
(* Arrays are records [shape, data].  An image array has shape             *)
(* <<rows, cols, channels>> and data[<<i, j>>] is the pixel, a sequence of *)
(* channel values; array channel k of the code is element k+1 here.  A     *)
(* mask has shape <<rows, cols>> and data[<<i, j>>] is one value.  A       *)
(* raster file holds band-major data, shape <<bands, rows, cols>>.         *)
(*                                                                         *)
(* The ratio is a float.  Every float is a dyadic rational num / den, den  *)
(* a power of two; the model draws small ones, for which the float         *)
(* quotient idx / ratio compares with an integer exactly as the rational   *)
(* quotient does (a non-integral quotient is at least 1/|num| away from    *)
(* every integer).  Quotients are kept as fractions [n, d] with d > 0.     *)
(***************************************************************************)
EXTENDS Integers, Sequences, FiniteSets, TLC

\* ------------------------------------------------------------- constants
MAX_PIXEL_VAL == 255

\* ---------------------------------------------------------------- bounds
\* An image holds at most MaxPixels pixels (rows * cols).
MaxPixels == 4
\* perform_process is handed at most MaxFiles files.
MaxFiles == 2
\* The transformer is run at most MaxRuns times, each run after the first
\* on the mask files the run before it wrote.
MaxRuns == 2

\* ------------------------------------------------------ numeric helpers
\* numpy's astype(np.uint8): the value modulo 2^8.
astype_uint8(v) == v % 256

RECURSIVE BitAndN(_, _, _)
BitAndN(a, b, n) ==
  IF n = 0 THEN 0
  ELSE (IF a % 2 = 1 /\ b % 2 = 1 THEN 1 ELSE 0) + 2 * BitAndN(a \div 2, b \div 2, n - 1)

\* The bitwise conjunction of two 8-bit values.
BitAnd(a, b) == BitAndN(a, b, 8)

\* A fraction n/d, d > 0.
Frac(n, d) == [n |-> n, d |-> d]
FracOfInt(v) == Frac(v, 1)
FracLess(a, b) == a.n * b.d < b.n * a.d
FracGE(a, b) == a.n * b.d >= b.n * a.d
FracEq(a, b) == a.n * b.d = b.n * a.d

\* Python's min(a, b): b only when b < a.
PyMin(a, b) == IF FracLess(b, a) THEN b ELSE a

\* idx / ratio for ratio # 0, the sign moved to the numerator.
Quotient(idx, ratio) ==
  IF ratio.num > 0 THEN Frac(idx * ratio.den, ratio.num)
  ELSE Frac(-(idx * ratio.den), -ratio.num)

\* ---------------------------------------------------------------- arrays
Positions(rows, cols) == (1..rows) \X (1..cols)
Rows(a) == a.shape[1]
Cols(a) == a.shape[2]
Channels(a) == a.shape[3]
PosOf(a) == Positions(Rows(a), Cols(a))

NoImage == [shape |-> <<0, 0, 0>>, data |-> <<>>]
NoMask == [shape |-> <<0, 0>>, data |-> <<>>]
NoFraction == [count |-> 0, size |-> 0]

\* ------------------------------------------------------- gen_plant_mask
\* The table of lines 79-82: red_limit[idx] = min(idx / ratio, MAX_PIXEL_VAL).
\* The division raises ZeroDivisionError when ratio = 0.
RedLimitChecksRatio(ratio) == ratio.num <= 0

red_limit_raises(ratio) == ratio.num = 0

RedLimitUnclamped(ratio) == [idx \in 0..MAX_PIXEL_VAL |-> Quotient(idx, ratio)]

red_limit(ratio) ==
  [idx \in 0..MAX_PIXEL_VAL |-> PyMin(Quotient(idx, ratio), FracOfInt(MAX_PIXEL_VAL))]

\* The comparison of line 90 for one pixel.
MeetsRatioStrict(limit, r) == FracLess(FracOfInt(r), limit)

MeetsRatio(limit, r) == FracGE(limit, FracOfInt(r))

\* Line 90: red_limit[g_channel.astype('int')] >= r_channel.
sub_img(color_img, table) ==
  [p \in PosOf(color_img) |-> MeetsRatio(table[color_img.data[p][2]], color_img.data[p][3])]

\* Lines 92-93: a new array of zeros shaped like one channel, set to
\* MAX_PIXEL_VAL where sub_img holds.
plant_mask(color_img, sub) ==
  [shape |-> <<Rows(color_img), Cols(color_img)>>,
   data |-> [p \in PosOf(color_img) |-> IF sub[p] THEN MAX_PIXEL_VAL ELSE 0]]

\* gen_plant_mask has no check of its own: it raises only through the
\* division, and returns a mask for every other ratio.
gen_plant_mask(color_img, ratio) ==
  IF red_limit_raises(ratio)
  THEN [error |-> "ZeroDivisionError", mask |-> NoMask]
  ELSE [error |-> "none", mask |-> plant_mask(color_img, sub_img(color_img, red_limit(ratio)))]

\* --------------------------------------------------------- gen_rgb_mask
\* cv2.bitwise_and(src, src, mask=bin_mask) on the first three channels: a
\* new array, zero where the mask is zero.
MaskedColourKeepAll(pixel, m) == [c \in 1..3 |-> BitAnd(pixel[c], pixel[c])]

masked_colour(pixel, m) ==
  [c \in 1..3 |-> IF m # 0 THEN BitAnd(pixel[c], pixel[c]) ELSE 0]

\* Lines 108-109: the channels past the third are appended as they are.
RestMasked(pixel, m) ==
  [c \in 1..(Len(pixel) - 3) |-> IF m # 0 THEN pixel[c + 3] ELSE 0]

rest_channels(pixel, m) == SubSeq(pixel, 4, Len(pixel))

gen_rgb_mask(image, mask) ==
  [shape |-> image.shape,
   data |-> [p \in PosOf(image) |->
               IF Channels(image) > 3
               THEN masked_colour(image.data[p], mask.data[p])
                      \o rest_channels(image.data[p], mask.data[p])
               ELSE masked_colour(image.data[p], mask.data[p])]]

\* ------------------------------------------------------------- cvtColor
\* cv2.cvtColor with COLOR_BGR2RGB (fewer than 4 channels) or
\* COLOR_BGRA2RGBA: channels 0 and 2 change places, a 4th channel stays.
swap_red_blue(pixel) ==
  [c \in 1..Len(pixel) |-> IF c = 1 THEN pixel[3] ELSE IF c = 3 THEN pixel[1] ELSE pixel[c]]

cvtColor(a) == [shape |-> a.shape, data |-> [p \in PosOf(a) |-> swap_red_blue(a.data[p])]]

\* ---------------------------------------------------------- raster files
NoRaster == [shape |-> <<0, 0, 0>>, data |-> <<>>]

\* gdal ReadAsArray gives bands x rows x cols; np.rollaxis(a, 0, 3) makes it
\* rows x cols x bands, after the cast to uint8 (line 130).
ReadAsArray(raster) ==
  [shape |-> <<raster.shape[2], raster.shape[3], raster.shape[1]>>,
   data |-> [p \in Positions(raster.shape[2], raster.shape[3]) |->
               [b \in 1..raster.shape[1] |-> astype_uint8(raster.data[<<b, p[1], p[2]>>])]]]

\* Lines 130-131: the array soilmask_by_ratio works on.
load_image(raster) == cvtColor(ReadAsArray(raster))

\* What create_tiff / create_geotiff store: band b is channel b of the array.
RasterOf(a) ==
  [shape |-> <<Channels(a), Rows(a), Cols(a)>>,
   data |-> [q \in (1..Channels(a)) \X (1..Rows(a)) \X (1..Cols(a)) |->
               a.data[<<q[2], q[3]>>][q[1]]]]

\* Lines 136-137: count_nonzero(bin_mask) / float(bin_mask.size), kept as the
\* pair it is the quotient of.
CountAllEntries(mask) ==
  [count |-> Cardinality(DOMAIN mask.data), size |-> mask.shape[1] * mask.shape[2]]

plant_fraction(mask) ==
  [count |-> Cardinality({p \in DOMAIN mask.data : mask.data[p] # 0}),
   size |-> mask.shape[1] * mask.shape[2]]

\* ----------------------------------------------------------------- paths
\* A path is [dir, base, ext]: base is the list of parts of the file's name
\* before its extension.
NoPath == [dir |-> "", base |-> <<>>, ext |-> ""]
working_folder == "work"

lower(ext) ==
  CASE ext = ".TIF" -> ".tif"
    [] ext = ".TIFF" -> ".tiff"
    [] OTHER -> ext

supported_file_ext == {".tiff", ".tif"}

\* Lines 41-43, joined to the working folder at line 240.
get_maskfilename(filename) ==
  [dir |-> working_folder, base |-> Append(filename.base, "_mask"), ext |-> filename.ext]

\* Lines 234-240.
mask_path(one_file, outf) ==
  IF outf # NoPath
  THEN IF outf.dir = "" THEN [outf EXCEPT !.dir = working_folder] ELSE outf
  ELSE get_maskfilename(one_file)

\* ---------------------------------------------------------------- inputs
\* Sample pixels in file band order <<red, green, blue, alpha>>: a tie at
\* ratio 1, one red step past the tie, green 50 / red 30, and a pixel that
\* is plant at every positive ratio drawn.
Palette == {<<100, 100, 7, 9>>, <<101, 100, 20, 64>>, <<30, 50, 255, 128>>, <<20, 200, 1, 255>>}

\* The pixels of the direct calls: the first three, full scale, black, and
\* a pixel that is soil at every positive ratio drawn.
UnitPalette ==
  {<<100, 100, 7, 9>>, <<101, 100, 20, 64>>, <<30, 50, 255, 128>>,
   <<255, 255, 1, 255>>, <<0, 0, 0, 0>>, <<250, 100, 3, 60>>}

\* Ratios num / den; two of them are not positive.
Ratios ==
  {[num |-> -1, den |-> 2], [num |-> 0, den |-> 1], [num |-> 1, den |-> 2],
   [num |-> 1, den |-> 1], [num |-> 2, den |-> 1]}

\* The ratios of the direct calls: 3/4 as well.
UnitRatios == Ratios \cup {[num |-> 3, den |-> 4]}

PositiveRatio(r) == r.num > 0

Shapes == {s \in (1..MaxPixels) \X (1..MaxPixels) : s[1] * s[2] <= MaxPixels}

ImagesOf(ch, pixels) ==
  UNION {{[shape |-> <<s[1], s[2], ch>>, data |-> d] :
            d \in [Positions(s[1], s[2]) -> {SubSeq(px, 1, ch) : px \in pixels}]} :
         s \in Shapes}

\* The 3- and 4-band 8-bit rasters a file may hold.
Rasters == {RasterOf(a) : a \in ImagesOf(3, Palette) \cup ImagesOf(4, Palette)}

BinaryMasks(image) ==
  {[shape |-> <<Rows(image), Cols(image)>>, data |-> d] :
     d \in [PosOf(image) -> {0, MAX_PIXEL_VAL}]}

\* ----------------------------------------------------------------- state
VARIABLES
  ratio,         \* environment.args.ratio
  out_file,      \* environment.args.out_file, NoPath when not given
  files,         \* check_md.get_list_files()
  fs,            \* the file system: path -> [epsg, bounds, readable, raster]
  run,           \* which run of the transformer this is
  pc,            \* the position in perform_process / soilmask_by_ratio
  idx,           \* files already passed by the loop of line 213
  epsg,          \* whether geoimage.get_epsg gave a code for one_file
  rgb_mask_tif,  \* the path the mask of one_file is written to
  img,           \* soilmask_by_ratio's img
  bin_mask,      \* soilmask_by_ratio's bin_mask
  mask_ratio,    \* the fraction soilmask_by_ratio returns
  rgb_mask,      \* the array soilmask_by_ratio returns
  file_md,       \* perform_process's file_md
  result,        \* perform_process's result
  raised,        \* the exception raised, "none" when none was
  opened,        \* the paths gdal.Open was called on in this run, in order
  writes         \* the masks written in this run, in order: [src, path]

vars ==
  <<ratio, out_file, files, fs, run, pc, idx, epsg, rgb_mask_tif, img, bin_mask,
    mask_ratio, rgb_mask, file_md, result, raised, opened, writes>>

EmptyResult == [k \in {} |-> 0]
one_file == files[idx + 1]

\* ----------------------------------------------------- the files offered
InPath(name, ext) == [dir |-> "in", base |-> <<name>>, ext |-> ext]
NotesTxt == InPath("notes", ".txt")
GoneTif == InPath("gone", ".tif")
NoBoundsTiff == InPath("nobounds", ".tiff")
BadTif == InPath("bad", ".tif")
PlainTif == InPath("plain", ".TIF")
GeoTif == InPath("geo", ".tif")

FileOf(e, b, rd, raster) == [epsg |-> e, bounds |-> b, readable |-> rd, raster |-> raster]

\* A 1 x 2 three-band raster and a 1 x 1 four-band raster.
SmallPlain ==
  RasterOf([shape |-> <<1, 2, 3>>,
            data |-> [p \in Positions(1, 2) |->
                        IF p[2] = 1 THEN <<100, 100, 7>> ELSE <<101, 100, 20>>]])
SmallGeo ==
  RasterOf([shape |-> <<1, 1, 4>>, data |-> [p \in Positions(1, 1) |-> <<30, 50, 255, 128>>]])

\* GoneTif does not exist; BadTif exists and gdal.Open gives None for it.
ListFs ==
  (NotesTxt :> FileOf(FALSE, FALSE, FALSE, NoRaster))
  @@ (NoBoundsTiff :> FileOf(TRUE, FALSE, TRUE, SmallGeo))
  @@ (BadTif :> FileOf(FALSE, FALSE, FALSE, NoRaster))
  @@ (PlainTif :> FileOf(FALSE, FALSE, TRUE, SmallPlain))
  @@ (GeoTif :> FileOf(TRUE, TRUE, TRUE, SmallGeo))

ListPaths == {NotesTxt, GoneTif, NoBoundsTiff, BadTif, PlainTif, GeoTif}
FileLists == UNION {[1..n -> ListPaths] : n \in 0..MaxFiles}
OutFiles ==
  {NoPath, [dir |-> "", base |-> <<"out">>, ext |-> ".tif"],
   [dir |-> "else", base |-> <<"out">>, ext |-> ".tif"]}

\* ------------------------------------------------------------------ Init
Locals ==
  /\ run = 1
  /\ idx = 0
  /\ epsg = FALSE
  /\ rgb_mask_tif = NoPath
  /\ mask_ratio = NoFraction
  /\ rgb_mask = NoImage
  /\ file_md = <<>>
  /\ result = EmptyResult
  /\ raised = "none"
  /\ opened = <<>>
  /\ writes = <<>>

\* One image file, its raster drawn from Rasters: a plain TIFF when it has
\* three bands, a georeferenced one when it has four.
InitImage ==
  /\ ratio \in Ratios
  /\ out_file = NoPath
  /\ \E raster \in Rasters :
       IF raster.shape[1] = 3
       THEN /\ files = <<PlainTif>>
            /\ fs = (PlainTif :> FileOf(FALSE, FALSE, TRUE, raster))
       ELSE /\ files = <<GeoTif>>
            /\ fs = (GeoTif :> FileOf(TRUE, TRUE, TRUE, raster))
  /\ pc = "loop"
  /\ img = NoImage
  /\ bin_mask = NoMask
  /\ Locals

\* A list of files of every kind, their rasters fixed.
InitList ==
  /\ ratio \in Ratios
  /\ out_file \in OutFiles
  /\ files \in FileLists
  /\ fs = ListFs
  /\ pc = "loop"
  /\ img = NoImage
  /\ bin_mask = NoMask
  /\ Locals

Init == InitImage \/ InitList

\* --------------------------------------------------- soilmask_by_ratio
\* Line 126.
RatioRejectedBelowZero(r) == r.num < 0

ratio_rejected(r) == r.num <= 0

\* Lines 92-93 and line 106 write to arrays of their own: the array they
\* were handed is afterwards what it was.
ImgMaskedInPlace(color_img, sub) ==
  [color_img EXCEPT !.data =
     [p \in PosOf(color_img) |->
        IF sub[p] THEN [color_img.data[p] EXCEPT ![1] = MAX_PIXEL_VAL]
        ELSE [color_img.data[p] EXCEPT ![1] = 0]]]

img_after_plant_mask(color_img, sub) == color_img

img_after_rgb_mask(image, mask) == image

\* Lines 277-281.
ExceptKeepsFiles(ex, md) == [code |-> -1001, error |-> ex, file |-> md]

except_result(ex, md) == [code |-> -1001, error |-> ex]

\* Lines 274-275.
loop_result(md) == [code |-> 0, file |-> md]

Raise(ex) ==
  /\ raised' = ex
  /\ result' = except_result(ex, file_md)
  /\ pc' = "done"

\* ------------------------------------------------------ perform_process
InLoop == pc = "loop" /\ idx < Len(files)
ExtSupported == lower(one_file.ext) \in supported_file_ext
Exists == one_file \in DOMAIN fs
BoundsMissing == fs[one_file].epsg /\ ~fs[one_file].bounds

Continue ==
  /\ idx' = idx + 1
  /\ UNCHANGED <<ratio, out_file, files, fs, run, pc, epsg, rgb_mask_tif, img, bin_mask,
                 mask_ratio, rgb_mask, file_md, result, raised, opened, writes>>

\* Lines 215-217.
SkipUnsupported == InLoop /\ ~ExtSupported /\ Continue

\* Lines 218-220.
SkipMissing == InLoop /\ ExtSupported /\ ~Exists /\ Continue

\* Lines 223-231.
SkipNoBounds == InLoop /\ ExtSupported /\ Exists /\ BoundsMissing /\ Continue

\* Lines 223-244, up to the call of soilmask_by_ratio.
BeginFile ==
  /\ InLoop /\ ExtSupported /\ Exists /\ ~BoundsMissing
  /\ epsg' = fs[one_file].epsg
  /\ rgb_mask_tif' = mask_path(one_file, out_file)
  /\ img' = NoImage
  /\ bin_mask' = NoMask
  /\ mask_ratio' = NoFraction
  /\ rgb_mask' = NoImage
  /\ pc' = "soilmask"
  /\ UNCHANGED <<ratio, out_file, files, fs, run, idx, file_md, result, raised, opened, writes>>

\* Lines 126-127, caught at line 277.
RejectRatio ==
  /\ pc = "soilmask"
  /\ ratio_rejected(ratio)
  /\ Raise("RuntimeError")
  /\ UNCHANGED <<ratio, out_file, files, fs, run, idx, epsg, rgb_mask_tif, img, bin_mask,
                 mask_ratio, rgb_mask, file_md, opened, writes>>

AcceptRatio ==
  /\ pc = "soilmask"
  /\ ~ratio_rejected(ratio)
  /\ pc' = "load"
  /\ UNCHANGED <<ratio, out_file, files, fs, run, idx, epsg, rgb_mask_tif, img, bin_mask,
                 mask_ratio, rgb_mask, file_md, result, raised, opened, writes>>

\* Lines 130-131: gdal.Open gives None for a file it cannot read, and the
\* call on None raises.
LoadFails ==
  /\ pc = "load"
  /\ ~fs[one_file].readable
  /\ opened' = Append(opened, one_file)
  /\ Raise("AttributeError")
  /\ UNCHANGED <<ratio, out_file, files, fs, run, idx, epsg, rgb_mask_tif, img, bin_mask,
                 mask_ratio, rgb_mask, file_md, writes>>

LoadImage ==
  /\ pc = "load"
  /\ fs[one_file].readable
  /\ opened' = Append(opened, one_file)
  /\ img' = load_image(fs[one_file].raster)
  /\ pc' = "gen_plant_mask"
  /\ UNCHANGED <<ratio, out_file, files, fs, run, idx, epsg, rgb_mask_tif, bin_mask,
                 mask_ratio, rgb_mask, file_md, result, raised, writes>>

\* Line 134.  The ratio is positive here, so the table's division succeeds.
GenPlantMask ==
  /\ pc = "gen_plant_mask"
  /\ bin_mask' = gen_plant_mask(img, ratio).mask
  /\ img' = img_after_plant_mask(img, sub_img(img, red_limit(ratio)))
  /\ pc' = "apply"
  /\ UNCHANGED <<ratio, out_file, files, fs, run, idx, epsg, rgb_mask_tif,
                 mask_ratio, rgb_mask, file_md, result, raised, opened, writes>>

\* Lines 136-141.
CountAndApply ==
  /\ pc = "apply"
  /\ mask_ratio' = plant_fraction(bin_mask)
  /\ rgb_mask' = gen_rgb_mask(img, bin_mask)
  /\ img' = img_after_rgb_mask(img, bin_mask)
  /\ pc' = "write"
  /\ UNCHANGED <<ratio, out_file, files, fs, run, idx, epsg, rgb_mask_tif, bin_mask,
                 file_md, result, raised, opened, writes>>

\* Line 250.
MaskRgbNotReordered == rgb_mask

mask_rgb == cvtColor(rgb_mask)

\* Lines 266-271.
new_file_md == [path |-> rgb_mask_tif, key |-> "stereoTop", ratio |-> mask_ratio]

\* Lines 245-272: the bands put back in file order, the mask written as a
\* GeoTIFF when the input had an EPSG code and as a plain TIFF otherwise.
WriteMask ==
  /\ pc = "write"
  /\ fs' = (rgb_mask_tif :> FileOf(epsg, epsg, TRUE, RasterOf(mask_rgb))) @@ fs
  /\ writes' = Append(writes, [src |-> idx + 1, path |-> rgb_mask_tif])
  /\ file_md' = Append(file_md, new_file_md)
  /\ idx' = idx + 1
  /\ pc' = "loop"
  /\ UNCHANGED <<ratio, out_file, files, run, epsg, rgb_mask_tif, img, bin_mask,
                 mask_ratio, rgb_mask, result, raised, opened>>

\* Lines 274-275 and 283.
FinishLoop ==
  /\ pc = "loop"
  /\ idx = Len(files)
  /\ result' = loop_result(file_md)
  /\ pc' = "done"
  /\ UNCHANGED <<ratio, out_file, files, fs, run, idx, epsg, rgb_mask_tif, img, bin_mask,
                 mask_ratio, rgb_mask, file_md, raised, opened, writes>>

\* The transformer run again (lines 286-288), with the same arguments, on
\* the mask files the finished run reported.
Rerun ==
  /\ pc = "done"
  /\ run < MaxRuns
  /\ "file" \in DOMAIN result
  /\ result.file # <<>>
  /\ files' = [i \in 1..Len(result.file) |-> result.file[i].path]
  /\ run' = run + 1
  /\ idx' = 0
  /\ epsg' = FALSE
  /\ rgb_mask_tif' = NoPath
  /\ img' = NoImage
  /\ bin_mask' = NoMask
  /\ mask_ratio' = NoFraction
  /\ rgb_mask' = NoImage
  /\ file_md' = <<>>
  /\ result' = EmptyResult
  /\ opened' = <<>>
  /\ writes' = <<>>
  /\ pc' = "loop"
  /\ UNCHANGED <<ratio, out_file, fs, raised>>

Next ==
  \/ SkipUnsupported
  \/ SkipMissing
  \/ SkipNoBounds
  \/ BeginFile
  \/ RejectRatio
  \/ AcceptRatio
  \/ LoadFails
  \/ LoadImage
  \/ GenPlantMask
  \/ CountAndApply
  \/ WriteMask
  \/ FinishLoop
  \/ Rerun

Spec == Init /\ [][Next]_vars

\* ------------------------------------------------- the helpers, called
\* gen_plant_mask and gen_rgb_mask called on their own, as static methods
\* of __internal__: any ratio, any binary mask over the image.
\* The arrays: the sample pixels, held in the order blue, green, red(, alpha).
UnitImages(pixels3, pixels4) ==
  {cvtColor(a) : a \in ImagesOf(3, pixels3) \cup ImagesOf(4, pixels4)}

InitUnit ==
  /\ \/ /\ pc = "call_plant"
        /\ img \in UnitImages(UnitPalette, Palette)
        /\ ratio \in UnitRatios
        /\ bin_mask = NoMask
     \/ /\ pc = "call_rgb"
        /\ img \in UnitImages(Palette, Palette)
        /\ ratio = [num |-> 1, den |-> 1]
        /\ bin_mask \in BinaryMasks(img)
  /\ out_file = NoPath
  /\ files = <<>>
  /\ fs = <<>>
  /\ Locals

\* Lines 68-95.
CallGenPlantMask ==
  /\ pc = "call_plant"
  /\ LET returned == gen_plant_mask(img, ratio) IN
       /\ raised' = returned.error
       /\ bin_mask' = returned.mask
  /\ img' = IF red_limit_raises(ratio) THEN img
            ELSE img_after_plant_mask(img, sub_img(img, red_limit(ratio)))
  /\ pc' = "returned_plant"
  /\ UNCHANGED <<ratio, out_file, files, fs, run, idx, epsg, rgb_mask_tif,
                 mask_ratio, rgb_mask, file_md, result, opened, writes>>

\* Lines 97-111.
CallGenRgbMask ==
  /\ pc = "call_rgb"
  /\ rgb_mask' = gen_rgb_mask(img, bin_mask)
  /\ img' = img_after_rgb_mask(img, bin_mask)
  /\ pc' = "returned_rgb"
  /\ UNCHANGED <<ratio, out_file, files, fs, run, idx, epsg, rgb_mask_tif, bin_mask,
                 mask_ratio, file_md, result, raised, opened, writes>>

NextUnit == CallGenPlantMask \/ CallGenRgbMask

SpecUnit == InitUnit /\ [][NextUnit]_vars

\* ================================================================ claims
IsNoImage(a) == a.shape[1] = 0
IsNoMask(m) == m.shape[1] = 0

\* min(g / ratio, 255) >= r for a positive ratio num / den, in integers.
PlantByRule(g, r, rt) == g * rt.den >= r * rt.num /\ r <= 255

IsRatio(rt, n, d) == rt.num * d = n * rt.den

\* Channel 1 of the array is green and channel 2 red (elements 2 and 3).
Green(p) == img.data[p][2]
Red(p) == img.data[p][3]

\* The raster of the file being processed, and its band b at position p:
\* band 1 is red, band 2 green, band 4 alpha.
InRaster == fs[one_file].raster
Band(b, p) == InRaster.data[<<b, p[1], p[2]>>]

\* C1: gen_plant_mask, called with a ratio > 0, returns a mask of the
\* image's rows x cols whose entries are 0 or 255, 255 exactly at the pixels
\* with min(g / ratio, 255) >= r; a tie is plant.
C1_Classification ==
  (pc = "returned_plant" /\ PositiveRatio(ratio)) =>
    /\ raised = "none"
    /\ bin_mask.shape = <<Rows(img), Cols(img)>>
    /\ DOMAIN bin_mask.data = PosOf(img)
    /\ \A p \in PosOf(img) :
         /\ bin_mask.data[p] \in {0, 255}
         /\ bin_mask.data[p] = 255 <=> PlantByRule(Green(p), Red(p), ratio)
         /\ (Green(p) = 100 /\ Red(p) = 100 /\ IsRatio(ratio, 1, 1)) => bin_mask.data[p] = 255
         /\ (Green(p) = 100 /\ Red(p) = 101 /\ IsRatio(ratio, 1, 1)) => bin_mask.data[p] = 0
         /\ (Green(p) = 50 /\ Red(p) = 30 /\ IsRatio(ratio, 2, 1)) => bin_mask.data[p] = 0
         /\ (Green(p) = 50 /\ Red(p) = 30 /\ IsRatio(ratio, 1, 2)) => bin_mask.data[p] = 255

C1_Witness ==
  /\ pc = "returned_plant"
  /\ IsRatio(ratio, 1, 1)
  /\ \E p, q \in PosOf(img) :
       /\ Green(p) = 100 /\ Red(p) = 100 /\ bin_mask.data[p] = 255
       /\ Green(q) = 100 /\ Red(q) = 101 /\ bin_mask.data[q] = 0

\* C2: gen_rgb_mask returns an array of the image's shape and channel count
\* whose colour channels hold the image's values where the mask is 255 and
\* 0 where the mask is 0.
C2_MaskApplication ==
  pc = "returned_rgb" =>
    /\ rgb_mask.shape = img.shape
    /\ DOMAIN rgb_mask.data = PosOf(img)
    /\ \A p \in PosOf(img) :
         /\ Len(rgb_mask.data[p]) = Channels(img)
         /\ \A c \in 1..3 :
              /\ bin_mask.data[p] = 255 => rgb_mask.data[p][c] = img.data[p][c]
              /\ bin_mask.data[p] = 0 => rgb_mask.data[p][c] = 0

C2_Witness ==
  /\ pc = "returned_rgb"
  /\ \E p, q \in PosOf(img) :
       /\ bin_mask.data[p] = 0 /\ img.data[p][1] # 0 /\ rgb_mask.data[p][1] = 0
       /\ bin_mask.data[q] = 255 /\ img.data[q][1] = 255 /\ rgb_mask.data[q][1] = 255

\* C3: the 4th channel of the array soilmask_by_ratio returns is, at every
\* pixel, band 4 of the input, whether the pixel is plant or soil.
C3_AlphaPassThrough ==
  (pc = "write" /\ InRaster.shape[1] = 4) =>
    /\ Channels(rgb_mask) = 4
    /\ \A p \in PosOf(rgb_mask) : rgb_mask.data[p][4] = Band(4, p)

C3_Witness ==
  /\ pc = "write"
  /\ InRaster.shape[1] = 4
  /\ \E p, q \in PosOf(rgb_mask) :
       /\ bin_mask.data[p] = 0 /\ Band(4, p) # 0 /\ rgb_mask.data[p][4] = Band(4, p)
       /\ bin_mask.data[q] = 255 /\ rgb_mask.data[q][4] = Band(4, q)

\* C4: the fraction soilmask_by_ratio returns is the number of mask entries
\* that are 255, which is the number of pixels of the file that meet the
\* rule, over rows x cols; it lies in [0, 1], and is 1/4 for a 2 x 2 image
\* with one plant pixel.
C4_PlantFraction ==
  pc = "write" =>
    /\ mask_ratio.size = InRaster.shape[2] * InRaster.shape[3]
    /\ mask_ratio.size > 0
    /\ mask_ratio.count = Cardinality({p \in PosOf(img) : bin_mask.data[p] = 255})
    /\ mask_ratio.count =
         Cardinality({p \in PosOf(img) : PlantByRule(Band(2, p), Band(1, p), ratio)})
    /\ 0 <= mask_ratio.count /\ mask_ratio.count <= mask_ratio.size
    /\ (InRaster.shape[2] = 2 /\ InRaster.shape[3] = 2
        /\ Cardinality({p \in PosOf(img) : bin_mask.data[p] = 255}) = 1)
         => mask_ratio.count * 4 = mask_ratio.size

C4_Witness ==
  /\ pc = "write"
  /\ InRaster.shape[2] = 2 /\ InRaster.shape[3] = 2
  /\ Cardinality({p \in PosOf(img) : bin_mask.data[p] = 255}) = 1
  /\ mask_ratio = [count |-> 1, size |-> 4]

\* C5: with a ratio <= 0 soilmask_by_ratio raises its RuntimeError at the
\* check: no file is opened, no array is built, nothing is returned or
\* written.
C5_InvalidRatio ==
  /\ ratio.num <= 0 =>
       /\ pc \in {"loop", "soilmask", "done"}
       /\ opened = <<>>
       /\ writes = <<>>
       /\ IsNoImage(img) /\ IsNoMask(bin_mask) /\ IsNoImage(rgb_mask)
       /\ mask_ratio = NoFraction
       /\ (pc = "done" /\ idx < Len(files)) =>
            raised = "RuntimeError" /\ result.code = -1001
  /\ raised = "RuntimeError" => ratio.num <= 0

C5_Witness ==
  /\ pc = "done"
  /\ raised = "RuntimeError"
  /\ ratio.num = 0
  /\ opened = <<>>
  /\ Len(files) = 1

\* C6: for 0 < ratio < 1 the table's entry for green 255 is 255, no entry
\* of the table is above 255, and a pixel with green 255 and red 255 is
\* plant.  The table depends on the ratio alone: all 256 entries are
\* examined at the calls on a single pixel, which meet every ratio.
C6_Clamping ==
  (pc = "returned_plant" /\ PositiveRatio(ratio)) =>
    LET table == red_limit(ratio) IN
    /\ Rows(img) * Cols(img) = 1 =>
         \A g \in 0..255 : ~FracLess(FracOfInt(255), table[g])
    /\ ratio.num < ratio.den =>
         /\ FracEq(table[255], FracOfInt(255))
         /\ \A p \in PosOf(img) :
              (Green(p) = 255 /\ Red(p) = 255) => bin_mask.data[p] = 255

C6_Witness ==
  /\ pc = "returned_plant"
  /\ IsRatio(ratio, 3, 4)
  /\ \E p \in PosOf(img) : Green(p) = 255 /\ Red(p) = 255 /\ bin_mask.data[p] = 255

\* C7: after gen_plant_mask and after gen_rgb_mask, img is the array that
\* was loaded, every pixel as it was, and the file it was loaded from is
\* as it was.
C7_InputImmutable ==
  pc \in {"apply", "write"} =>
    /\ img = load_image(InRaster)
    /\ \A p \in PosOf(img) : \A b \in 1..Channels(img) :
         img.data[p][b] = Band(IF b = 1 THEN 3 ELSE IF b = 3 THEN 1 ELSE b, p)

C7_Witness ==
  /\ pc = "write"
  /\ \E p, q \in PosOf(img) : bin_mask.data[p] = 255 /\ bin_mask.data[q] = 0
  /\ img = load_image(InRaster)

\* C8, as claimed: gen_plant_mask called with a ratio <= 0 fails with the
\* invalid-parameter error (the RuntimeError of line 127).
C8_Original ==
  (pc = "returned_plant" /\ ratio.num <= 0) => raised = "RuntimeError"

\* C8, amended: gen_plant_mask makes no check of the ratio.  Called with
\* ratio = 0 it fails with ZeroDivisionError and returns nothing; called
\* with ratio < 0 it raises nothing and returns a mask, 255 only where
\* green and red are both 0.  It never raises the invalid-parameter error.
C8_Amended ==
  pc = "returned_plant" =>
    /\ raised # "RuntimeError"
    /\ ratio.num = 0 => raised = "ZeroDivisionError" /\ IsNoMask(bin_mask)
    /\ ratio.num < 0 =>
         /\ raised = "none"
         /\ bin_mask.shape = <<Rows(img), Cols(img)>>
         /\ \A p \in PosOf(img) :
              bin_mask.data[p] = (IF Green(p) = 0 /\ Red(p) = 0 THEN 255 ELSE 0)

C8_Witness ==
  /\ pc = "returned_plant"
  /\ ratio.num < 0
  /\ raised = "none"
  /\ \E p, q \in PosOf(img) :
       /\ Green(p) = 0 /\ Red(p) = 0 /\ bin_mask.data[p] = 255
       /\ Green(q) = 100 /\ bin_mask.data[q] = 0

\* C9: a run of the transformer on a mask file it wrote, with the same
\* ratio, produces that mask file's raster again, band for band.
LastWrite == writes[Len(writes)]

C9_Idempotent ==
  run >= 2 =>
    /\ pc = "write" => RasterOf(mask_rgb) = InRaster
    /\ (pc = "loop" /\ writes # <<>>) =>
         fs[LastWrite.path].raster = fs[files[LastWrite.src]].raster

C9_Witness ==
  /\ run = 2
  /\ pc = "loop"
  /\ writes # <<>>
  /\ LastWrite.path # files[LastWrite.src]
  /\ LET r == fs[LastWrite.path].raster IN
       /\ r.shape[1] = 4
       /\ \E i \in 1..r.shape[2], j \in 1..r.shape[3] : r.data[<<1, i, j>>] = 0
       /\ \E i \in 1..r.shape[2], j \in 1..r.shape[3] :
            r.data[<<1, i, j>>] # r.data[<<3, i, j>>]

====
